---- MODULE Spec2Model ----
(***************************************************************************)
(* Model of pypower/int2ext.py: conversion of a PYPOWER case from the      *)
(* consecutive internal bus numbering back to the external numbering.      *)
(*                                                                         *)
(* Numeric tables are 0-based arrays of rows (functions on 0..n-1), as in  *)
(* the Python source; a row is a record whose fields carry the names of    *)
(* the column indices the source uses (BUS_I, GEN_BUS, F_BUS, T_BUS,       *)
(* PRICE_REF_BUS) plus the columns the restore treats as payload.          *)
(* A dict is a record; has_key is membership in its DOMAIN.                *)
(***************************************************************************)
EXTENDS Integers, Sequences, FiniteSets, TLC

VARIABLES
    mpc,     \* the case dict the caller holds (mutated in place by int2ext)
    args,    \* the remaining positional arguments of the next/last call
    ret,     \* outcome of the last call: [exc |-> ..., value |-> ...]
    log,     \* messages passed to logger.error, in order
    calls,   \* invocations of run_userfcn, in order: [stage, mpc]
    pre,     \* the caller's view just before the last call: [mpc, calls, log]
    ext0,    \* the external case handed to the forward converter (or None)
    pc,      \* which entry shape this run exercises / what happened last
    ncalls   \* number of int2ext calls made so far

vars == <<mpc, args, ret, log, calls, pre, ext0, pc, ncalls>>

----------------------------------------------------------------------------
(* Bounds of the model.                                                    *)

MaxBus == 3
MaxGen == 2
MaxBranch == 1
MaxCalls == 2
MaxTags == 2
MaxExtra == 1

----------------------------------------------------------------------------
(* Python values.                                                          *)

None == [none |-> TRUE]

NoExc == "none"

EmptyDict == [k \in {} |-> None]

has_key(d, k) == k \in DOMAIN d

\* d[k] = v on a dict
SetKey(d, k, v) == [x \in (DOMAIN d) \cup {k} |-> IF x = k THEN v ELSE d[x]]

\* del d[k]
DelKey(d, k) == [x \in (DOMAIN d) \ {k} |-> d[x]]

\* number of rows of a 0-based array
Size(a) == Cardinality(DOMAIN a)

\* the 0-based array holding the elements of a sequence
Arr(s) == [i \in 0..(Len(s) - 1) |-> s[i + 1]]

\* the values of an index array, as a set
Range(a) == {a[j] : j \in DOMAIN a}

\* a[idx, :]  (numpy fancy row indexing: a new array)
TakeRows(a, idx) == [j \in DOMAIN idx |-> a[idx[j]]]

\* a[idx, :] = rows  (numpy fancy row assignment)
SetRows(a, idx, rows) ==
    [p \in DOMAIN a |->
        IF p \in Range(idx)
        THEN rows[CHOOSE j \in DOMAIN idx : idx[j] = p]
        ELSE a[p]]

\* a[idx, col] = i2e[ a[idx, col] ]
MapCol(a, idx, col, i2e) ==
    [p \in DOMAIN a |->
        IF p \in Range(idx) THEN [a[p] EXCEPT ![col] = i2e[@]] ELSE a[p]]

\* 0, 1, ..., n-1 as an index array (all rows, the ":" slice)
AllRows(a) == [j \in DOMAIN a |-> j]

----------------------------------------------------------------------------
(* Collaborators of int2ext that live outside int2ext.py.                  *)

\* The callbacks a case may register under 'userfcn'.  "bump" adds one to
\* the payload column of every bus, gen and branch row; "noop" changes
\* nothing.  Both return the case they were given.
Callbacks == {"bump", "noop"}

BumpRows(tbl, col) == [p \in DOMAIN tbl |-> [tbl[p] EXCEPT ![col] = @ + 1]]

run_userfcn(userfcn, stage, m) ==
    IF userfcn = "bump"
    THEN [m EXCEPT !.bus = BumpRows(@, "PD"),
                   !.gen = BumpRows(@, "PG"),
                   !.branch = BumpRows(@, "PF")]
    ELSE m

\* get_reorder(A, idx, dim): the rows of A selected by idx
get_reorder(A, idx, dim) ==
    IF Range(idx) \subseteq DOMAIN A
    THEN [exc |-> NoExc, value |-> TakeRows(A, idx)]
    ELSE [exc |-> "IndexError", value |-> None]

\* set_reorder(A, B, idx, dim): a copy of A whose rows idx are the rows of B
set_reorder(A, B, idx, dim) ==
    IF ~(Range(idx) \subseteq DOMAIN A)
    THEN [exc |-> "IndexError", value |-> None]
    ELSE IF Size(B) # Size(idx)
    THEN [exc |-> "ValueError", value |-> None]
    ELSE [exc |-> NoExc, value |-> SetRows(A, idx, B)]

----------------------------------------------------------------------------
(* int2ext(mpc): the whole-case form, lines 98-166.                        *)
(* The steps thread st = [mpc, o, log, calls, exc]; once exc is set the    *)
(* remaining statements are skipped, as after a raise.                     *)

MsgNoOrder == "int2ext: mpc does not have the \"order\" field require for conversion back to external numbering."

MsgAlreadyExt == "int2ext: mpc claims it is already using external numbering."

Raise(st, e) == [st EXCEPT !.exc = e]

\* lines 99-102: the missing-order check logs, then o = mpc["order"]
check_order(st) ==
    IF ~has_key(st.mpc, "order")
    THEN Raise([st EXCEPT !.log = Append(@, MsgNoOrder)], "KeyError")
    ELSE [st EXCEPT !.o = st.mpc.order]

\* line 104 (state_not_checked: the restore runs whatever order.state is)
state_not_checked(o) == TRUE

state_is_internal(o) == o.state = "i"

\* lines 106-107 (exec_userfcn_ext2int: the callbacks are run for the
\* forward converter's stage)
exec_userfcn_ext2int(st) ==
    IF has_key(st.mpc, "userfcn")
    THEN [st EXCEPT
            !.calls = Append(@, [stage |-> "ext2int", mpc |-> st.mpc]),
            !.mpc = run_userfcn(st.mpc.userfcn, "ext2int", st.mpc)]
    ELSE st

exec_userfcn(st) ==
    IF has_key(st.mpc, "userfcn")
    THEN [st EXCEPT
            !.calls = Append(@, [stage |-> "int2ext", mpc |-> st.mpc]),
            !.mpc = run_userfcn(st.mpc.userfcn, "int2ext", st.mpc)]
    ELSE st

\* lines 116-127, one optional table k of gencost, areas, A, N
save_optional(st, k) ==
    IF st.exc # NoExc \/ ~has_key(st.mpc, k) THEN st
    ELSE LET s1 == [st EXCEPT !.o.int = SetKey(@, k, st.mpc[k])]
         IN  IF ~has_key(s1.o.ext, k) THEN Raise(s1, "KeyError")
             ELSE [s1 EXCEPT !.mpc = SetKey(@, k, s1.o.ext[k])]

\* lines 110-127: save the internal tables, restore the external snapshots
save_and_restore(st) ==
    IF st.exc # NoExc THEN st
    ELSE IF ~has_key(st.o, "int") THEN Raise(st, "KeyError")
    ELSE
      LET s1 == [st EXCEPT !.o.int =
                    SetKey(SetKey(SetKey(@, "bus", st.mpc.bus),
                                  "branch", st.mpc.branch),
                           "gen", st.mpc.gen)]
      IN  IF ~has_key(s1.o, "ext") THEN Raise(s1, "KeyError")
          ELSE
            LET s2 == [s1 EXCEPT !.mpc.bus = s1.o.ext.bus,
                                 !.mpc.branch = s1.o.ext.branch,
                                 !.mpc.gen = s1.o.ext.gen]
            IN  save_optional(save_optional(save_optional(
                    save_optional(s2, "gencost"), "areas"), "A"), "N")

\* line 135: o["int"]["gen"][o["gen"]["i2e"], :]
\* (gen_not_unpermuted: the internal rows are scattered as they are)
gen_not_unpermuted(intgen, i2e) == intgen

gen_unpermuted(intgen, i2e) == TakeRows(intgen, i2e)

\* lines 130-138: update data (in bus, branch and gen only)
\* (update_skipped: the external snapshots are left as restored)
update_skipped(st) == st

update_data(st) ==
    IF st.exc # NoExc THEN st
    ELSE
      LET o == st.o
          s1 == [st EXCEPT
                   !.mpc.bus = SetRows(@, o.bus.status.on, o.int.bus),
                   !.mpc.branch = SetRows(@, o.branch.status.on, o.int.branch),
                   !.mpc.gen = SetRows(@, o.gen.status.on,
                                       gen_unpermuted(o.int.gen, o.gen.i2e))]
      IN  IF ~has_key(s1.mpc, "areas") THEN s1
          ELSE IF ~has_key(o, "areas") THEN Raise(s1, "KeyError")
          ELSE [s1 EXCEPT !.mpc.areas =
                            SetRows(@, o.areas.status.on, o.int.areas)]

\* one statement of lines 141-156:
\* mpc[t][on, col] = o["bus"]["i2e"][ mpc[t][on, col] ]
\* (an index outside the i2e array raises IndexError)
revert_column(st, t, on, col) ==
    IF st.exc # NoExc THEN st
    ELSE IF \E p \in Range(on) : st.mpc[t][p][col] \notin DOMAIN st.o.bus.i2e
    THEN Raise(st, "IndexError")
    ELSE [st EXCEPT !.mpc[t] = MapCol(@, on, col, st.o.bus.i2e)]

\* lines 141-156: revert to original bus numbers
\* (revert_skipped: the restored rows keep their internal bus numbers)
revert_skipped(st) == st

revert_bus_numbers(st) ==
    LET o == st.o
        s1 == revert_column(st, "bus", o.bus.status.on, "BUS_I")
        s2 == revert_column(s1, "branch", o.branch.status.on, "F_BUS")
        s3 == revert_column(s2, "branch", o.branch.status.on, "T_BUS")
        s4 == revert_column(s3, "gen", o.gen.status.on, "GEN_BUS")
    IN  IF s4.exc # NoExc \/ ~has_key(s4.mpc, "areas") THEN s4
        ELSE revert_column(s4, "areas", o.areas.status.on, "PRICE_REF_BUS")

\* lines 158-161
finish_restore(st) ==
    IF st.exc # NoExc THEN st
    ELSE
      LET o1 == IF has_key(st.o, "ext") THEN DelKey(st.o, "ext") ELSE st.o
          o2 == [o1 EXCEPT !.state = "e"]
      IN  [st EXCEPT !.o = o2, !.mpc = SetKey(@, "order", o2)]

\* lines 162-164
already_external(st) == [st EXCEPT !.log = Append(@, MsgAlreadyExt)]

\* lines 98-166 and 230.  The dict o stays the caller's mpc["order"]
\* object, so what was stored into it before a raise is seen by the caller.
whole_case(m, lg, cl) ==
    LET s0 == check_order([mpc |-> m, o |-> None, log |-> lg,
                           calls |-> cl, exc |-> NoExc])
        s1 == IF s0.exc # NoExc THEN s0
              ELSE IF state_is_internal(s0.o)
              THEN finish_restore(revert_bus_numbers(update_data(
                       save_and_restore(exec_userfcn(s0)))))
              ELSE already_external(s0)
        out == IF has_key(m, "order") /\ s1.exc # NoExc
               THEN SetKey(s1.mpc, "order", s1.o)
               ELSE s1.mpc
    IN  [mpc |-> out, log |-> s1.log, calls |-> s1.calls,
         ret |-> IF s1.exc # NoExc
                 THEN [exc |-> s1.exc, value |-> None]
                 ELSE [exc |-> NoExc, value |-> <<out, None, None, None>>]]

----------------------------------------------------------------------------
(* int2ext(mpc, val, oldval, ordering, dim): the raw-value form, lines     *)
(* 190-221.  ordering is [type |-> "str", v |-> tag] or                    *)
(* [type |-> "list", v |-> array of tags]; the fifth argument is None or   *)
(* [dim |-> n].                                                            *)

Raised(e) == [exc |-> e, value |-> None]

Returned(v) == [exc |-> NoExc, value |-> v]

\* lines 199-205: the key looked up in o is the literal 'ordering'
single_set(o, val, oldval, ordering, dim) ==
    IF ~has_key(o, "ordering") THEN Raised("KeyError")
    ELSE
      LET v == IF ordering = "gen"
               THEN IF ~has_key(o["ordering"], "i2e") THEN Raised("KeyError")
                    ELSE get_reorder(val, o["ordering"]["i2e"], dim)
               ELSE Returned(val)
      IN  IF v.exc # NoExc THEN v
          ELSE set_reorder(oldval, v.value,
                           o["ordering"]["status"]["on"], dim)

\* bi + range(ni), lines 212, 213 and 219: an int plus a list
int_plus_range(b, n) == Raised("TypeError")

\* size(val, dim), line 217: no name 'size' is defined in or imported
\* into int2ext.py
size_of(val, dim) == Raised("NameError")

\* lines 207-221.  The first pass of the loop already ends at line 212,
\* and with an empty ordering the loop is skipped and line 217 ends it.
multiple_sets(m, o, val, oldval, ordering, dim) ==
    IF Size(ordering) > 0
    THEN IF ~has_key(o, "ext") \/ ~has_key(o["ext"], "ordering")
         THEN Raised("KeyError")
         ELSE IF 0 \notin DOMAIN o["ext"]["ordering"]
         THEN Raised("IndexError")
         ELSE IF ~has_key(m, "ordering") THEN Raised("KeyError")
         ELSE IF 0 \notin DOMAIN m["ordering"] THEN Raised("IndexError")
         ELSE LET ne == Size(o["ext"]["ordering"][0])
                  ni == Size(m["ordering"][0])
              IN  int_plus_range(0, ni)
    ELSE size_of(val, dim)

\* lines 190-221 and 230: returns (bus, gen, branch, areas)
raw_value(m, val, oldval, ordering, areas) ==
    IF ~has_key(m, "order") THEN Raised("KeyError")
    ELSE
      LET o == m["order"]
          dim == IF areas # None THEN areas.dim ELSE 1
          r == IF ordering.type = "str"
               THEN single_set(o, val, oldval, ordering.v, dim)
               ELSE multiple_sets(m, o, val, oldval, ordering.v, dim)
      IN  IF r.exc # NoExc THEN r
          ELSE Returned(<<r.value, oldval, ordering, areas>>)

----------------------------------------------------------------------------
(* int2ext(i2e, bus, gen, branch, areas): the old form, lines 222-230.     *)
(* The areas argument is None or [table |-> rows].                         *)

\* areas.any(): some element of the table is nonzero
any(areas) ==
    \E p \in DOMAIN areas : areas[p].AREA_I # 0 \/ areas[p].PRICE_REF_BUS # 0

\* line 227; branch is a table here, or line 225 would have raised
areas_to_convert(areas) == areas # None /\ ~any(areas.table)

old_form(i2e, bus, gen, branch, areas) ==
    LET bus1 == MapCol(bus, AllRows(bus), "BUS_I", i2e)
        gen1 == MapCol(gen, AllRows(gen), "GEN_BUS", i2e)
        br1 == MapCol(MapCol(branch, AllRows(branch), "F_BUS", i2e),
                      AllRows(branch), "T_BUS", i2e)
        areas1 == IF areas_to_convert(areas)
                  THEN [table |-> MapCol(areas.table, AllRows(areas.table),
                                         "PRICE_REF_BUS", i2e)]
                  ELSE areas
    IN  Returned(<<bus1, gen1, br1, areas1>>)

----------------------------------------------------------------------------
(* The forward converter ext2int, which builds the internal numbering and  *)
(* the order record that int2ext reads.                                    *)

\* the elements of a set of naturals as an ascending 0-based array
SortedArr(S) ==
    [j \in 0..(Cardinality(S) - 1) |->
        CHOOSE x \in S : Cardinality({y \in S : y < x}) = j]

\* external bus number -> internal bus number
BusE2I(i2e, v) == CHOOSE j \in DOMAIN i2e : i2e[j] = v

\* position of online generator j once the generators are sorted by bus
GenRank(g, j) ==
    Cardinality({m \in DOMAIN g :
        \/ g[m].GEN_BUS < g[j].GEN_BUS
        \/ (g[m].GEN_BUS = g[j].GEN_BUS /\ m < j)})

ext2int(m) ==
    LET busOnline(v) == \E p \in DOMAIN m.bus :
                            m.bus[p].BUS_I = v /\ m.bus[p].BUS_TYPE # "NONE"
        bOn == SortedArr({p \in DOMAIN m.bus : m.bus[p].BUS_TYPE # "NONE"})
        gOn == SortedArr({p \in DOMAIN m.gen :
                            /\ m.gen[p].GEN_STATUS > 0
                            /\ busOnline(m.gen[p].GEN_BUS)})
        brOn == SortedArr({p \in DOMAIN m.branch :
                            /\ m.branch[p].BR_STATUS # 0
                            /\ busOnline(m.branch[p].F_BUS)
                            /\ busOnline(m.branch[p].T_BUS)})
        bi2e == [j \in DOMAIN bOn |-> m.bus[bOn[j]].BUS_I]
        ibus == [j \in DOMAIN bOn |->
                    [m.bus[bOn[j]] EXCEPT !.BUS_I = BusE2I(bi2e, @)]]
        g1 == [j \in DOMAIN gOn |->
                    [m.gen[gOn[j]] EXCEPT !.GEN_BUS = BusE2I(bi2e, @)]]
        gi2e == [j \in DOMAIN g1 |-> GenRank(g1, j)]
        ge2i == [r \in DOMAIN g1 |-> CHOOSE j \in DOMAIN g1 : gi2e[j] = r]
        igen == TakeRows(g1, ge2i)
        ibr == [j \in DOMAIN brOn |->
                    [m.branch[brOn[j]] EXCEPT !.F_BUS = BusE2I(bi2e, @),
                                              !.T_BUS = BusE2I(bi2e, @)]]
        o == [state |-> "i",
              ext |-> [bus |-> m.bus, gen |-> m.gen, branch |-> m.branch],
              int |-> EmptyDict,
              bus |-> [status |-> [on |-> bOn], i2e |-> bi2e],
              gen |-> [status |-> [on |-> gOn], i2e |-> gi2e, e2i |-> ge2i],
              branch |-> [status |-> [on |-> brOn]]]
    IN  [bus |-> ibus, gen |-> igen, branch |-> ibr, order |-> o]

----------------------------------------------------------------------------
(* Cases the model starts from.                                            *)

ExtId(k) == 10 * (k + 1)

Perms(n) == {f \in [0..(n - 1) -> 0..(n - 1)] :
                \A a, b \in 0..(n - 1) : f[a] = f[b] => a = b}

\* An external case: MaxBus buses numbered 10, 20, ..., generators at the
\* buses gb chooses, the branches on a ring; bt, gs, bs say which are in
\* service.
ExternalCase(bt, gb, gs, bs) ==
    [bus |-> [k \in 0..(MaxBus - 1) |->
                [BUS_I |-> ExtId(k),
                 BUS_TYPE |-> IF k \in bt THEN "PQ" ELSE "NONE",
                 PD |-> 200 + k]],
     gen |-> [k \in 0..(MaxGen - 1) |->
                [GEN_BUS |-> ExtId(gb[k]),
                 GEN_STATUS |-> IF k \in gs THEN 1 ELSE 0,
                 PG |-> 400 + k]],
     branch |-> [k \in 0..(MaxBranch - 1) |->
                [F_BUS |-> ExtId(k % MaxBus),
                 T_BUS |-> ExtId((k + 1) % MaxBus),
                 BR_STATUS |-> IF k \in bs THEN 1 ELSE 0,
                 PF |-> 600 + k]]]

ExternalCases ==
    {ExternalCase(bt, gb, gs, bs) :
        bt \in SUBSET (0..(MaxBus - 1)),
        gb \in [0..(MaxGen - 1) -> 0..(MaxBus - 1)],
        gs \in SUBSET (0..(MaxGen - 1)),
        bs \in SUBSET (0..(MaxBranch - 1))}

\* An internal case with its order record, as a solver leaves it: the
\* online rows carry their own payload (100.., 300.., 500..), the cached
\* external snapshot another one (200.., 400.., 600..).  bOn, gOn, brOn are
\* the status.on sets, gp the generator permutation gen.i2e, s rotates the
\* internal bus references.
InternalCase(bOn, gOn, gp, brOn, s) ==
    LET nb == Cardinality(bOn)
        e == ExternalCase(bOn, [k \in 0..(MaxGen - 1) |-> k % MaxBus], gOn, brOn)
        o == [state |-> "i",
              ext |-> [bus |-> e.bus, gen |-> e.gen, branch |-> e.branch],
              int |-> EmptyDict,
              bus |-> [status |-> [on |-> SortedArr(bOn)],
                       i2e |-> [j \in 0..(nb - 1) |-> ExtId(SortedArr(bOn)[j])]],
              gen |-> [status |-> [on |-> SortedArr(gOn)], i2e |-> gp],
              branch |-> [status |-> [on |-> SortedArr(brOn)]]]
    IN  [bus |-> [j \in 0..(nb - 1) |->
                    [BUS_I |-> j, BUS_TYPE |-> "PQ", PD |-> 100 + j]],
         gen |-> [j \in 0..(Cardinality(gOn) - 1) |->
                    [GEN_BUS |-> (j + s) % nb, GEN_STATUS |-> 1, PG |-> 300 + j]],
         branch |-> [j \in 0..(Cardinality(brOn) - 1) |->
                    [F_BUS |-> (j + s) % nb, T_BUS |-> (j + s + 1) % nb,
                     BR_STATUS |-> 1, PF |-> 500 + j]],
         order |-> o]

InternalCases ==
    {InternalCase({}, {}, EmptyDict, {}, 0)} \cup
    UNION {UNION {
        {InternalCase(bOn, gOn, gp, brOn, s) :
            gp \in Perms(Cardinality(gOn)),
            brOn \in SUBSET (0..(MaxBranch - 1)),
            s \in 0..(Cardinality(bOn) - 1)} :
        gOn \in SUBSET (0..(MaxGen - 1))} :
        bOn \in SUBSET (0..(MaxBus - 1)) \ {{}}}

\* the case with the optional tables gencost, areas, A and N, each cached
\* in order.ext as well; the one area refers to internal bus 0
WithOptionalTables(m) ==
    LET nb == Size(m.bus)
        o == [m.order EXCEPT
                !.ext = [bus |-> @.bus, gen |-> @.gen, branch |-> @.branch,
                         gencost |-> "gencost.ext", A |-> "A.ext",
                         N |-> "N.ext",
                         areas |-> Arr(<<[AREA_I |-> 1,
                                          PRICE_REF_BUS |-> ExtId(0)],
                                         [AREA_I |-> 2,
                                          PRICE_REF_BUS |-> ExtId(1)]>>)]]
        oa == SetKey(o, "areas",
                 [status |-> [on |-> IF nb > 0 THEN Arr(<<1>>) ELSE Arr(<<>>)]])
    IN  [bus |-> m.bus, gen |-> m.gen, branch |-> m.branch, order |-> oa,
         gencost |-> "gencost.int", A |-> "A.int", N |-> "N.int",
         areas |-> IF nb > 0
                   THEN Arr(<<[AREA_I |-> 7, PRICE_REF_BUS |-> nb - 1]>>)
                   ELSE Arr(<<>>)]

Decorated(m, f, x) ==
    LET m1 == IF x THEN WithOptionalTables(m) ELSE m
    IN  IF f \in Callbacks THEN SetKey(m1, "userfcn", f) ELSE m1

\* internal cases a caller may hand to int2ext(mpc)
HarnessCases ==
    {Decorated(m, f, x) :
        m \in InternalCases, f \in Callbacks \cup {"absent"}, x \in BOOLEAN}

\* cases that never went through ext2int: no 'order' field
OrderlessCases ==
    {DelKey(m, "order") : m \in {Decorated(c, f, FALSE) :
        c \in {InternalCase(bOn, {}, EmptyDict, {}, 0) :
                  bOn \in SUBSET (0..(MaxBus - 1)) \ {{}}},
        f \in Callbacks \cup {"absent"}}}

----------------------------------------------------------------------------
(* The state machine: a caller with one case, calling the converters.     *)

Snapshot == [mpc |-> mpc, calls |-> calls, log |-> log]

InitCommon ==
    /\ args = None
    /\ ret = None
    /\ log = <<>>
    /\ calls = <<>>
    /\ pre = None
    /\ ncalls = 0

\* an external case about to go through ext2int
InitExternal ==
    /\ InitCommon
    /\ mpc \in ExternalCases
    /\ ext0 = mpc
    /\ pc = "ext"

\* a case in internal numbering (or one with no order record at all)
InitInternal ==
    /\ InitCommon
    /\ mpc \in HarnessCases \cup OrderlessCases
    /\ ext0 = None
    /\ pc = "case"

\* mpc = ext2int(mpc)
Forward ==
    /\ pc = "ext"
    /\ mpc' = ext2int(mpc)
    /\ pc' = "case"
    /\ UNCHANGED <<args, ret, log, calls, pre, ext0, ncalls>>

\* int2ext(mpc, None, None, None, None): the whole handler
Restore ==
    /\ pc = "case"
    /\ ncalls < MaxCalls
    /\ LET r == whole_case(mpc, log, calls)
       IN  /\ mpc' = r.mpc
           /\ log' = r.log
           /\ calls' = r.calls
           /\ ret' = r.ret
    /\ pre' = Snapshot
    /\ ncalls' = ncalls + 1
    /\ UNCHANGED <<args, ext0, pc>>

Tags == {"bus", "gen", "branch"}

\* the cases the raw-value form is exercised on: every branch in service
\* unless no bus is
RawBaseCases ==
    {InternalCase({}, {}, EmptyDict, {}, 0)} \cup
    UNION {UNION {
        {InternalCase(bOn, gOn, gp, 0..(MaxBranch - 1), 0) :
            gp \in Perms(Cardinality(gOn))} :
        gOn \in SUBSET (0..(MaxGen - 1))} :
        bOn \in SUBSET (0..(MaxBus - 1)) \ {{}}}

\* the case with data registered under the name 'ordering': one block of
\* two internal rows, three external rows, rows 0 and 2 in service
WithOrderingEntry(m) ==
    LET o == [m.order EXCEPT
                !.ext = SetKey(@, "ordering", Arr(<<Arr(<<31, 32, 33>>)>>))]
        oo == SetKey(o, "ordering",
                 [status |-> [on |-> Arr(<<0, 2>>)], i2e |-> Arr(<<1, 0>>)])
    IN  SetKey(SetKey(m, "order", oo), "ordering", Arr(<<Arr(<<21, 22>>)>>))

\* internal and external row counts of the class a tag names
InternalCount(m, t) == Size(m.order[t].status.on)

ExternalCount(m, t) == Size(m.order.ext[t])

\* an internally indexed block of n rows, numbered from b
ValBlock(b, n) == [j \in 0..(n - 1) |-> 700 + b + j]

OldBlock(b, n) == [p \in 0..(n - 1) |-> 800 + b + p]

\* rows the first k tags account for, in internal and in external indexing
RECURSIVE InternalBase(_, _, _)
InternalBase(m, tags, k) ==
    IF k = 0 THEN 0
    ELSE InternalBase(m, tags, k - 1) + InternalCount(m, tags[k - 1])

RECURSIVE ExternalBase(_, _, _)
ExternalBase(m, tags, k) ==
    IF k = 0 THEN 0
    ELSE ExternalBase(m, tags, k - 1) + ExternalCount(m, tags[k - 1])

\* the arguments of a raw-value call whose val and oldval fit the ordering
\* and whose val has x rows more than the ordering accounts for
SingleArgs(m, t) ==
    [val |-> ValBlock(0, InternalCount(m, t)),
     oldval |-> OldBlock(0, ExternalCount(m, t)),
     ordering |-> [type |-> "str", v |-> t],
     areas |-> None]

ListArgs(m, tags, x, d) ==
    [val |-> ValBlock(0, InternalBase(m, tags, Size(tags)) + x),
     oldval |-> OldBlock(0, ExternalBase(m, tags, Size(tags))),
     ordering |-> [type |-> "list", v |-> tags],
     areas |-> d]

TagLists == UNION {[0..(n - 1) -> Tags] : n \in 0..MaxTags}

InitRaw ==
    /\ ret = None /\ log = <<>> /\ calls = <<>> /\ pre = None /\ ncalls = 0
    /\ ext0 = None
    /\ pc = "raw"
    /\ \E m \in RawBaseCases, w \in BOOLEAN :
         mpc = IF w THEN WithOrderingEntry(m) ELSE m
    /\ \/ \E t \in Tags : args = SingleArgs(mpc, t)
       \/ \E tags \in TagLists, x \in {0, MaxExtra}, d \in {None, [dim |-> 1]} :
            args = ListArgs(mpc, tags, x, d)

\* the tables handed to the old form: buses 0..MaxBus-1 in internal
\* numbering, i2e mapping bus k to ExtId(k)
OldFormAreas ==
    {None, [table |-> Arr(<<>>)],
     [table |-> Arr(<<[AREA_I |-> 0, PRICE_REF_BUS |-> 0]>>)]} \cup
    {[table |-> Arr(<<[AREA_I |-> 1, PRICE_REF_BUS |-> r]>>)] :
        r \in 0..(MaxBus - 1)}

InitOldForm ==
    /\ ret = None /\ log = <<>> /\ calls = <<>> /\ pre = None /\ ncalls = 0
    /\ ext0 = None
    /\ pc = "old"
    /\ mpc = None
    /\ \E gb \in [0..(MaxGen - 1) -> 0..(MaxBus - 1)], a \in OldFormAreas :
         args = [i2e |-> [k \in 0..(MaxBus - 1) |-> ExtId(k)],
                 bus |-> [k \in 0..(MaxBus - 1) |->
                            [BUS_I |-> k, BUS_TYPE |-> "PQ", PD |-> 100 + k]],
                 gen |-> [k \in 0..(MaxGen - 1) |->
                            [GEN_BUS |-> gb[k], GEN_STATUS |-> 1,
                             PG |-> 300 + k]],
                 branch |-> [k \in 0..(MaxBranch - 1) |->
                            [F_BUS |-> k % MaxBus, T_BUS |-> (k + 1) % MaxBus,
                             BR_STATUS |-> 1, PF |-> 500 + k]],
                 areas |-> a]

\* int2ext(mpc, val, oldval, ordering, dim): the whole handler
ConvertValue ==
    /\ pc = "raw"
    /\ ncalls = 0
    /\ ret' = raw_value(mpc, args.val, args.oldval, args.ordering, args.areas)
    /\ pre' = Snapshot
    /\ ncalls' = ncalls + 1
    /\ UNCHANGED <<mpc, args, log, calls, ext0, pc>>

\* int2ext(i2e, bus, gen, branch, areas): the whole handler
OldForm ==
    /\ pc = "old"
    /\ ncalls = 0
    /\ ret' = old_form(args.i2e, args.bus, args.gen, args.branch, args.areas)
    /\ pre' = Snapshot
    /\ ncalls' = ncalls + 1
    /\ UNCHANGED <<mpc, args, log, calls, ext0, pc>>

Init == InitExternal \/ InitInternal \/ InitRaw \/ InitOldForm

Next == Forward \/ Restore \/ ConvertValue \/ OldForm

Spec == Init /\ [][Next]_vars

----------------------------------------------------------------------------
(* Properties of the whole-case form.                                      *)

Called == pre # None /\ pc = "case"

\* the last call was int2ext(mpc) on a case in internal numbering
RestoredCase ==
    /\ Called
    /\ has_key(pre.mpc, "order")
    /\ pre.mpc.order.state = "i"

\* the case the restore works on: what the callbacks returned, if any ran
InternalView ==
    IF has_key(pre.mpc, "userfcn")
    THEN run_userfcn(pre.mpc.userfcn, "int2ext", pre.mpc)
    ELSE pre.mpc

OnSet(t) == Range(pre.mpc.order[t].status.on)

\* C1: int2ext(mpc) on an internal case returns a case in state external
\* whose bus, branch and gen tables have the row count of the cached
\* order.ext table, whose rows outside status.on are the cached external
\* rows, and whose rows in status.on are the internal rows with their bus
\* columns mapped through bus.i2e.
C1_WholeCaseRestore ==
    RestoredCase =>
      /\ ret.exc = NoExc
      /\ LET R == ret.value[1]
             o == pre.mpc.order
             I == InternalView
             b == o.bus.i2e
         IN  /\ R.order.state = "e"
             /\ \A t \in {"bus", "branch", "gen"} :
                  /\ DOMAIN R[t] = DOMAIN o.ext[t]
                  /\ \A p \in DOMAIN R[t] :
                        p \notin OnSet(t) => R[t][p] = o.ext[t][p]
             /\ \A j \in DOMAIN o.bus.status.on :
                  R.bus[o.bus.status.on[j]] =
                     [BUS_I |-> b[I.bus[j].BUS_I],
                      BUS_TYPE |-> I.bus[j].BUS_TYPE, PD |-> I.bus[j].PD]
             /\ \A j \in DOMAIN o.branch.status.on :
                  R.branch[o.branch.status.on[j]] =
                     [F_BUS |-> b[I.branch[j].F_BUS],
                      T_BUS |-> b[I.branch[j].T_BUS],
                      BR_STATUS |-> I.branch[j].BR_STATUS,
                      PF |-> I.branch[j].PF]
             /\ \A j \in DOMAIN o.gen.status.on :
                  \E m \in DOMAIN I.gen :
                     R.gen[o.gen.status.on[j]] =
                        [GEN_BUS |-> b[I.gen[m].GEN_BUS],
                         GEN_STATUS |-> I.gen[m].GEN_STATUS,
                         PG |-> I.gen[m].PG]

\* the scenario of C1: status.on = [0,2], bus.i2e = [10,30], internal ids
\* [0,1], external ids [10,20,30]; row 1 comes back untouched
C1_Witness ==
    /\ RestoredCase
    /\ ret.exc = NoExc
    /\ pre.mpc.order.bus.status.on = Arr(<<0, 2>>)
    /\ pre.mpc.order.bus.i2e = Arr(<<10, 30>>)
    /\ [j \in DOMAIN pre.mpc.bus |-> pre.mpc.bus[j].BUS_I] = Arr(<<0, 1>>)
    /\ [p \in DOMAIN mpc.bus |-> mpc.bus[p].BUS_I] = Arr(<<10, 20, 30>>)
    /\ mpc.bus[1] = pre.mpc.order.ext.bus[1]
    /\ mpc.bus[0].PD = pre.mpc.bus[0].PD
    /\ mpc.bus[0] # pre.mpc.order.ext.bus[0]
    /\ Size(pre.mpc.gen) > 0
    /\ Size(pre.mpc.branch) > 0

\* C2: a call on a case whose order.state is already external reports the
\* already-external condition, runs no callback and leaves the case, its
\* tables and its order record as they were.
C2_SecondCallReportsOnly ==
    (Called /\ has_key(pre.mpc, "order") /\ pre.mpc.order.state # "i") =>
      /\ ret.exc = NoExc
      /\ log = Append(pre.log, MsgAlreadyExt)
      /\ calls = pre.calls
      /\ mpc = pre.mpc
      /\ ret.value[1] = pre.mpc

\* the second of two calls in sequence, the first of which restored the
\* case and ran its callback
C2_Witness ==
    /\ Called
    /\ ncalls = 2
    /\ has_key(pre.mpc, "order")
    /\ pre.mpc.order.state = "e"
    /\ has_key(pre.mpc.order.int, "bus")
    /\ Len(pre.calls) = 1
    /\ log = <<MsgAlreadyExt>>

\* C3: int2ext(mpc) on a case without 'order' logs the error and returns
\* the case unmodified, without raising.
C3_MissingOrderSoftFailure ==
    (Called /\ ~has_key(pre.mpc, "order")) =>
      /\ log = Append(pre.log, MsgNoOrder)
      /\ ret.exc = NoExc
      /\ ret.value[1] = pre.mpc
      /\ mpc = pre.mpc

\* C4: int2ext(ext2int(case)) has the bus, gen and branch tables of case.
C4_RoundTrip ==
    (Called /\ ext0 # None) =>
      /\ ret.exc = NoExc
      /\ mpc.bus = ext0.bus
      /\ mpc.gen = ext0.gen
      /\ mpc.branch = ext0.branch
      /\ ret.value[1].bus = ext0.bus
      /\ ret.value[1].gen = ext0.gen
      /\ ret.value[1].branch = ext0.branch

\* a round trip in which the internal numbering dropped a bus and a
\* branch and reordered the generators
C4_Witness ==
    /\ Called
    /\ ext0 # None
    /\ ncalls = 1
    /\ Size(mpc.order.int.bus) > 0
    /\ Size(mpc.order.int.bus) < Size(ext0.bus)
    /\ Size(mpc.order.int.branch) < Size(ext0.branch)
    /\ \E j \in DOMAIN mpc.order.gen.i2e : mpc.order.gen.i2e[j] # j
    /\ mpc.bus = ext0.bus

\* C5: the restored gen row at external position gen.status.on[j] is the
\* internal gen row gen.i2e[j] with GEN_BUS mapped through bus.i2e; the
\* payloads of the restored online rows are, as a multiset, those of the
\* internal gen table; after ext2int the generators are back in their
\* original sequence.
C5_GenUnpermutation ==
    RestoredCase =>
      LET R == mpc
          o == pre.mpc.order
          I == InternalView
          on == o.gen.status.on
      IN  /\ \A j \in DOMAIN on :
                R.gen[on[j]] =
                   [I.gen[o.gen.i2e[j]] EXCEPT !.GEN_BUS = o.bus.i2e[@]]
          /\ \A v \in {I.gen[m].PG : m \in DOMAIN I.gen} :
                Cardinality({j \in DOMAIN on : R.gen[on[j]].PG = v}) =
                Cardinality({m \in DOMAIN I.gen : I.gen[m].PG = v})
          /\ \A j \in DOMAIN on :
                \E m \in DOMAIN I.gen : R.gen[on[j]].PG = I.gen[m].PG
          /\ ext0 # None =>
                \A j \in DOMAIN on : R.gen[on[j]] = ext0.gen[on[j]]

\* a restore under a non-identity gen.i2e
C5_Witness ==
    /\ RestoredCase
    /\ ret.exc = NoExc
    /\ pre.mpc.order.gen.i2e = Arr(<<1, 0>>)
    /\ mpc.gen[pre.mpc.order.gen.status.on[0]].PG = InternalView.gen[1].PG
    /\ mpc.gen[pre.mpc.order.gen.status.on[1]].PG = InternalView.gen[0].PG

\* C10: with callbacks registered and order.state internal, run_userfcn is
\* invoked exactly once, with stage 'int2ext', on the case as the caller
\* passed it (internal tables, order.ext still cached, state internal); the
\* restore then works on what it returned.  Otherwise it is not invoked.
C10_CallbackFirst ==
    Called =>
      IF RestoredCase /\ has_key(pre.mpc, "userfcn")
      THEN /\ calls = Append(pre.calls,
                             [stage |-> "int2ext", mpc |-> pre.mpc])
           /\ calls[Len(calls)].mpc.order.state = "i"
           /\ has_key(calls[Len(calls)].mpc.order, "ext")
           /\ LET V == run_userfcn(pre.mpc.userfcn, "int2ext", pre.mpc)
                  on == pre.mpc.order.bus.status.on
              IN  /\ mpc.order.int.bus = V.bus
                  /\ mpc.order.int.gen = V.gen
                  /\ mpc.order.int.branch = V.branch
                  /\ \A j \in DOMAIN on : mpc.bus[on[j]].PD = V.bus[j].PD
      ELSE calls = pre.calls

\* a restore whose callback changed the internal tables
C10_Witness ==
    /\ RestoredCase
    /\ has_key(pre.mpc, "userfcn")
    /\ pre.mpc.userfcn = "bump"
    /\ Len(calls) = 1
    /\ Size(pre.mpc.bus) > 1
    /\ mpc.order.int.bus # pre.mpc.bus
    /\ mpc.order.state = "e"

----------------------------------------------------------------------------
(* Properties of the raw-value form.                                       *)

RawCalled == pre # None /\ pc = "raw"

\* the single-tag conversion as the ordering descriptor defines it: a copy
\* of oldv whose rows order[t].status.on are the rows of v, taken through
\* order.gen.i2e first when t is gen
SingleTagConversion(m, t, v, oldv) ==
    LET on == m.order[t].status.on
        u == IF t = "gen" THEN [j \in DOMAIN v |-> v[m.order.gen.i2e[j]]]
             ELSE v
    IN  [p \in DOMAIN oldv |->
            IF \E j \in DOMAIN on : on[j] = p
            THEN u[CHOOSE j \in DOMAIN on : on[j] = p]
            ELSE oldv[p]]

\* C6: with a single tag t the result is a copy of oldval whose rows at
\* order[t].status.on are the rows of val (un-permuted through
\* order.gen.i2e for gen); the other rows of oldval are unchanged; the
\* status.on and i2e are those of the class the tag names.
C6_SingleTagConversion ==
    (RawCalled /\ args.ordering.type = "str") =>
      /\ ret.exc = NoExc
      /\ ret.value[1] = SingleTagConversion(mpc, args.ordering.v,
                                            args.val, args.oldval)

\* slices of a 0-based array: rows b .. b+n-1
Slice(a, b, n) == [j \in 0..(n - 1) |-> a[b + j]]

\* C7: when val has N rows and the tags account for M < N internal rows,
\* the last N - M rows of the result are rows M..N-1 of val and the result
\* has no other extra rows.
C7_UntouchedRemainder ==
    LET tags == args.ordering.v
        M == InternalBase(mpc, tags, Size(tags))
        E == ExternalBase(mpc, tags, Size(tags))
        N == Size(args.val)
    IN  (RawCalled /\ args.ordering.type = "list" /\ M < N) =>
          /\ ret.exc = NoExc
          /\ Size(ret.value[1]) = E + (N - M)
          /\ Slice(ret.value[1], E, N - M) = Slice(args.val, M, N - M)

\* C8: for an ordering [t1, ..., tn] the result is the concatenation, in
\* tag order, of the single-tag conversions of the blocks of val and
\* oldval that the running internal and external bases cut out.
C8_CompositeIsPerBlock ==
    LET tags == args.ordering.v
    IN  (RawCalled /\ args.ordering.type = "list") =>
          /\ ret.exc = NoExc
          /\ \A k \in DOMAIN tags :
                Slice(ret.value[1], ExternalBase(mpc, tags, k),
                      ExternalCount(mpc, tags[k])) =
                SingleTagConversion(mpc, tags[k],
                    Slice(args.val, InternalBase(mpc, tags, k),
                          InternalCount(mpc, tags[k])),
                    Slice(args.oldval, ExternalBase(mpc, tags, k),
                          ExternalCount(mpc, tags[k])))

----------------------------------------------------------------------------
(* Properties of the old form.                                             *)

OldCalled == pre # None /\ pc = "old"

\* C9: the old form maps BUS_I, GEN_BUS, F_BUS, T_BUS and, when an areas
\* table is given, PRICE_REF_BUS through i2e, leaves every other column,
\* the row count and the row order alone, and with areas=None completes
\* and still maps bus, gen and branch.
C9_OldFormRemapsAll ==
    OldCalled =>
      /\ ret.exc = NoExc
      /\ LET i2e == args.i2e
             R == ret.value
         IN  /\ R[1] = [p \in DOMAIN args.bus |->
                          [args.bus[p] EXCEPT !.BUS_I = i2e[@]]]
             /\ R[2] = [p \in DOMAIN args.gen |->
                          [args.gen[p] EXCEPT !.GEN_BUS = i2e[@]]]
             /\ R[3] = [p \in DOMAIN args.branch |->
                          [args.branch[p] EXCEPT !.F_BUS = i2e[@],
                                                 !.T_BUS = i2e[@]]]
             /\ IF args.areas = None THEN R[4] = None
                ELSE R[4].table =
                       [p \in DOMAIN args.areas.table |->
                          [args.areas.table[p] EXCEPT
                              !.PRICE_REF_BUS = i2e[@]]]

====
